---- MODULE Spec2Model ----
(***************************************************************************)
(* A model of src/main.py (class TradingBot and the __main__ entry point). *)
(*                                                                         *)
(* Three specifications share the module's variables:                      *)
(*   Spec     the process: construction, then the run_bot loop;            *)
(*   SpecOps  calls of the accessors and of execute_trade on a constructed *)
(*            bot, each against one outcome of the client call it makes;   *)
(*   SpecSMA  the two definitions of simple_moving_average_strategy,       *)
(*            applied to a bar series and a pair of windows.               *)
(* The brokerage SDK (tradeapi.REST) is not part of the repository: every  *)
(* call of it is an input, drawn from the outcomes the call can have.      *)
(***************************************************************************)
EXTENDS Integers, Sequences, FiniteSets

VARIABLES
    pc,            \* position of the process: "main", "constructed", "loop", "done", "crashed"
    ctorClock,     \* outcome of the constructor's get_clock probe ("none": not called)
    ctorAccount,   \* outcome of the constructor's get_account ("none": not called)
    retry_count,   \* run_bot's local retry_count
    hist,          \* outcomes of the loop iterations so far: "closed", "ok", "fail"
    clockQueries,  \* number of check_market_hours calls made by run_bot
    tradeIters,    \* number of iterations that got past the market-hours gate
    slept,         \* argument of the last time.sleep of run_bot (0: none yet)
    lastClock,     \* outcome of the last get_clock call made by run_bot ("none": none yet)
    call,          \* the last completed call of an accessor or of execute_trade
    orders,        \* the order requests handed to api.submit_order, in order
    bars,          \* the client's answer to get_bars
    short_window,  \* argument short_window of the strategy
    long_window,   \* argument long_window of the strategy
    signal1,       \* result of the first (shadowed) strategy definition, "none" before the call
    signal2        \* result of the second (effective) strategy definition, "none" before the call

botVars == <<pc, ctorClock, ctorAccount, retry_count, hist, clockQueries, tradeIters, slept,
             lastClock>>
opsVars == <<call, orders>>
smaVars == <<bars, short_window, long_window, signal1, signal2>>
vars == <<botVars, opsVars, smaVars>>

(***************************************************************************)
(* Bounds of the model.                                                    *)
(***************************************************************************)
MaxIter == 6      \* loop iterations followed
MaxOrders == 2    \* order requests logged
MaxLen == 6       \* longest bar series
MaxWin == 5       \* largest window

(***************************************************************************)
(* Program constants.                                                      *)
(***************************************************************************)
max_retries == 3
MarketClosedSleep == 300
IterationSleep == 60
BackoffSleep == 10

(***************************************************************************)
(* Outcomes of the client calls.                                           *)
(***************************************************************************)
ClockOutcomes == {"open", "closed", "error"}      \* api.get_clock(): is_open, or raises
AccountOutcomes == {"ok", "error"}                \* api.get_account(): a snapshot, or raises
TradeOutcomes == {"ok", "raise"}                  \* the trading logic of one iteration

(***************************************************************************)
(* TradingBot.__init__: REST(...), then get_clock(), then get_account();   *)
(* the except clause logs and re-raises.  rest is whether REST(...)        *)
(* returned.  A call that is not reached is recorded as "none".            *)
(***************************************************************************)
TradingBotInitSwallows(rest, clock, acct) ==
    [raised  |-> FALSE,
     clock   |-> IF rest THEN clock ELSE "none",
     account |-> IF rest /\ clock # "error" THEN acct ELSE "none"]

TradingBotInit(rest, clock, acct) ==
    [raised  |-> ~rest \/ clock = "error" \/ acct = "error",
     clock   |-> IF rest THEN clock ELSE "none",
     account |-> IF rest /\ clock # "error" THEN acct ELSE "none"]

(***************************************************************************)
(* check_market_hours: clock.is_open, and False when get_clock raises.     *)
(* A call's result is a record: raised, and the value returned.            *)
(***************************************************************************)
check_market_hours_propagates(clock) ==
    IF clock = "error" THEN [raised |-> TRUE, ret |-> FALSE]
    ELSE [raised |-> FALSE, ret |-> (clock = "open")]

check_market_hours(clock) ==
    IF clock = "error" THEN [raised |-> FALSE, ret |-> FALSE]
    ELSE [raised |-> FALSE, ret |-> (clock = "open")]

(***************************************************************************)
(* run_bot.  One action is one pass of the while loop, from its top to the *)
(* sleep that ends it.  The trading logic of an iteration is a place       *)
(* holder in the source (line 206); what the loop does with it is decided  *)
(* by whether it raises, so it is an input.                                *)
(***************************************************************************)
ShouldShutDownOffByOne(rc) == rc > max_retries

ShouldShutDown(rc) == rc >= max_retries

RetryAfterSuccessKept(rc) == rc

RetryAfterSuccess(rc) == 0

RetryAfterFailure(rc) == rc + 1

\* The path one iteration takes: "closed" (continue), "ok", or "fail" (except).
IterationResult(clock, trade) ==
    LET mh == check_market_hours(clock)
    IN  IF mh.raised THEN "fail"
        ELSE IF ~mh.ret THEN "closed"
        ELSE IF trade = "raise" THEN "fail"
        ELSE "ok"

\* Whether the iteration got past the market-hours gate to the trading logic.
ReachesTrading(clock) ==
    LET mh == check_market_hours(clock) IN ~mh.raised /\ mh.ret

Iteration(kind) ==
    /\ pc = "loop"
    /\ ~ShouldShutDown(retry_count)
    /\ Len(hist) < MaxIter
    /\ \E clock \in ClockOutcomes, trade \in TradeOutcomes :
          /\ IterationResult(clock, trade) = kind
          /\ lastClock' = clock
          /\ clockQueries' = clockQueries + 1
          /\ tradeIters' = IF ReachesTrading(clock) THEN tradeIters + 1 ELSE tradeIters
          /\ hist' = Append(hist, kind)
          /\ retry_count' = CASE kind = "closed" -> retry_count
                              [] kind = "ok"     -> RetryAfterSuccess(retry_count)
                              [] kind = "fail"   -> RetryAfterFailure(retry_count)
          /\ slept' = CASE kind = "closed" -> MarketClosedSleep
                        [] kind = "ok"     -> IterationSleep
                        [] kind = "fail"   -> BackoffSleep
    /\ pc' = "loop"
    /\ UNCHANGED <<ctorClock, ctorAccount, opsVars, smaVars>>

MarketClosedIteration == Iteration("closed")

SuccessfulIteration == Iteration("ok")

FailedIteration == Iteration("fail")

Shutdown ==
    /\ pc = "loop"
    /\ ShouldShutDown(retry_count)
    /\ pc' = "done"
    /\ UNCHANGED <<ctorClock, ctorAccount, retry_count, hist, clockQueries, tradeIters,
                   slept, lastClock, opsVars, smaVars>>

\* __main__, line 230: bot = TradingBot(API_KEY, API_SECRET)
Construct ==
    /\ pc = "main"
    /\ \E rest \in BOOLEAN, clock \in ClockOutcomes, acct \in AccountOutcomes :
          LET r == TradingBotInit(rest, clock, acct)
          IN  /\ ctorClock' = r.clock
              /\ ctorAccount' = r.account
              /\ pc' = IF r.raised THEN "crashed" ELSE "constructed"
    /\ UNCHANGED <<retry_count, hist, clockQueries, tradeIters, slept, lastClock,
                   opsVars, smaVars>>

\* __main__, line 233: bot.run_bot('AAPL', strategy='sma'), up to the while.
StartRunBot ==
    /\ pc = "constructed"
    /\ pc' = "loop"
    /\ retry_count' = 0
    /\ UNCHANGED <<ctorClock, ctorAccount, hist, clockQueries, tradeIters, slept,
                   lastClock, opsVars, smaVars>>

(***************************************************************************)
(* Strings that the code inspects character by character are sequences of  *)
(* one-character strings.  str.lower() maps each upper-case letter to its  *)
(* lower-case letter and leaves every other character alone.               *)
(***************************************************************************)
LowerChar(c) ==
    CASE c = "B" -> "b" [] c = "U" -> "u" [] c = "Y" -> "y"
      [] c = "S" -> "s" [] c = "E" -> "e" [] c = "L" -> "l"
      [] c = "H" -> "h" [] c = "O" -> "o" [] c = "D" -> "d"
      [] OTHER -> c

LowerIdentity(str) == str

Lower(str) == [i \in 1..Len(str) |-> LowerChar(str[i])]

Symbols == {"AAPL"}
Qtys == {1}
Sides ==
    { <<"b","u","y">>, <<"B","U","Y">>, <<"B","u","y">>, <<"b","u","Y">>,
      <<"s","e","l","l">>, <<"S","E","L","L">>, <<"S","e","l","l">>, <<"s","e","L","l">>,
      <<"h","o","l","d">>, <<"H","O","L","D">>, <<>>,
      <<"b","u","y","s">>, <<"s","e","l">>, <<"B","U","Y"," ">> }

PositionOutcomes == {"found", "no_position", "error"}   \* api.get_position(symbol)
SubmitOutcomes == {"accepted", "rejected", "error"}     \* api.submit_order(...)
AssetOutcomes ==                                        \* api.get_asset(symbol)
    [ok : {TRUE}, tradable : BOOLEAN, status : {"active", "inactive"}]
    \cup {[ok |-> FALSE, tradable |-> FALSE, status |-> "none"]}

\* Values returned to the caller.
None == [kind |-> "None"]
Bool(b) == [kind |-> "bool", value |-> b]
AccountInfo == [kind |-> "account_info"]
Position(symbol) == [kind |-> "position", symbol |-> symbol]
OrderRequest(symbol, qty, side) ==
    [symbol |-> symbol, qty |-> qty, side |-> side, type |-> "market", time_in_force |-> "gtc"]
\* The client's answer to an accepted submit_order.
Order(request) == [kind |-> "order", request |-> request]

\* get_account_info: no try/except around api.get_account().
get_account_info(acct) ==
    IF acct = "error" THEN [raised |-> TRUE, ret |-> None]
    ELSE [raised |-> FALSE, ret |-> AccountInfo]

get_position_propagates(symbol, outcome) ==
    IF outcome = "found" THEN [raised |-> FALSE, ret |-> Position(symbol)]
    ELSE [raised |-> TRUE, ret |-> None]

\* get_position: the position, and None on any failure of the client call.
get_position(symbol, outcome) ==
    IF outcome = "found" THEN [raised |-> FALSE, ret |-> Position(symbol)]
    ELSE [raised |-> FALSE, ret |-> None]

\* is_symbol_tradeable: asset.tradable and asset.status == 'active'; False on failure.
is_symbol_tradeable(asset) ==
    IF ~asset.ok THEN [raised |-> FALSE, ret |-> Bool(FALSE)]
    ELSE [raised |-> FALSE, ret |-> Bool(asset.tradable /\ asset.status = "active")]

\* execute_trade, line 167: side.lower() not in ['buy', 'sell']
ValidSide(side) == Lower(side) \in { <<"b","u","y">>, <<"s","e","l","l">> }

\* execute_trade: the ValueError of an invalid side and every failure of submit_order
\* end in the except clause, which returns None.  submitted: the requests handed to
\* api.submit_order during the call.
execute_trade(symbol, qty, side, submit) ==
    IF ~ValidSide(side)
    THEN [raised |-> FALSE, ret |-> None, submitted |-> <<>>]
    ELSE LET request == OrderRequest(symbol, qty, side)
         IN  [raised    |-> FALSE,
              ret       |-> IF submit = "accepted" THEN Order(request) ELSE None,
              submitted |-> <<request>>]

NoCall ==
    [op |-> "none", symbol |-> "", qty |-> 0, side |-> <<>>, client |-> "none",
     raised |-> FALSE, ret |-> None, submits |-> 0]

CallExecuteTrade ==
    /\ pc = "constructed"
    /\ \E symbol \in Symbols, qty \in Qtys, side \in Sides, submit \in SubmitOutcomes :
          LET r == execute_trade(symbol, qty, side, submit)
          IN  /\ Len(orders) + Len(r.submitted) <= MaxOrders
              /\ orders' = orders \o r.submitted
              /\ call' = [op |-> "execute_trade", symbol |-> symbol, qty |-> qty,
                          side |-> side, client |-> submit, raised |-> r.raised,
                          ret |-> r.ret, submits |-> Len(r.submitted)]
    /\ UNCHANGED <<botVars, smaVars>>

CallGetPosition ==
    /\ pc = "constructed"
    /\ \E symbol \in Symbols, outcome \in PositionOutcomes :
          LET r == get_position(symbol, outcome)
          IN  call' = [NoCall EXCEPT !.op = "get_position", !.symbol = symbol,
                         !.client = outcome, !.raised = r.raised, !.ret = r.ret]
    /\ UNCHANGED <<botVars, orders, smaVars>>

CallIsSymbolTradeable ==
    /\ pc = "constructed"
    /\ \E symbol \in Symbols, asset \in AssetOutcomes :
          LET r == is_symbol_tradeable(asset)
          IN  call' = [NoCall EXCEPT !.op = "is_symbol_tradeable", !.symbol = symbol,
                         !.client = IF asset.ok THEN "found" ELSE "error",
                         !.raised = r.raised, !.ret = r.ret]
    /\ UNCHANGED <<botVars, orders, smaVars>>

CallCheckMarketHours ==
    /\ pc = "constructed"
    /\ \E clock \in ClockOutcomes :
          LET r == check_market_hours(clock)
          IN  call' = [NoCall EXCEPT !.op = "check_market_hours", !.client = clock,
                         !.raised = r.raised, !.ret = Bool(r.ret)]
    /\ UNCHANGED <<botVars, orders, smaVars>>

CallGetAccountInfo ==
    /\ pc = "constructed"
    /\ \E acct \in AccountOutcomes :
          LET r == get_account_info(acct)
          IN  call' = [NoCall EXCEPT !.op = "get_account_info", !.client = acct,
                         !.raised = r.raised, !.ret = r.ret]
    /\ UNCHANGED <<botVars, orders, smaVars>>

(***************************************************************************)
(* The signal strategy.  A bar series is the sequence of its closing       *)
(* prices, oldest first.  The client's answer to get_bars is a failure     *)
(* (ok = FALSE) or a series, possibly empty; limit only bounds its length  *)
(* (100 and long_window + 10 in the two definitions, both above MaxLen).   *)
(***************************************************************************)
Prices == {9, 10, 11}
Windows == 1..MaxWin
Series == UNION {[1..n -> Prices] : n \in 0..MaxLen}
BarsOutcomes == {[ok |-> FALSE, closes |-> <<>>]} \cup [ok : {TRUE}, closes : Series]

\* get_historical_data: the bars, and an empty frame when the client fails,
\* returns nothing or returns an empty frame.
get_historical_data(resp) ==
    IF ~resp.ok THEN <<>>
    ELSE IF Len(resp.closes) = 0 THEN <<>>
    ELSE resp.closes

RECURSIVE SumRange(_, _, _)
SumRange(closes, lo, hi) ==
    IF lo > hi THEN 0 ELSE closes[hi] + SumRange(closes, lo, hi - 1)

\* A rolling average is missing (NaN) or the exact quotient sum / n.
NaN == [nan |-> TRUE, sum |-> 0, n |-> 1]

RollingMeanPartial(closes, window, i) ==
    LET lo == IF i < window THEN 1 ELSE i - window + 1
    IN  [nan |-> FALSE, sum |-> SumRange(closes, lo, i), n |-> i - lo + 1]

\* data['close'].rolling(window=window).mean() at row i (1 is the oldest row):
\* missing for the first window - 1 rows, else the mean of the trailing window.
RollingMean(closes, window, i) ==
    IF i < window THEN NaN
    ELSE [nan |-> FALSE, sum |-> SumRange(closes, i - window + 1, i), n |-> window]

\* Comparisons of two averages; every comparison with NaN is false.  The closes
\* are integers, so sum / n is compared exactly, by cross-multiplication.
LessEq(a, b) == ~a.nan /\ ~b.nan /\ a.sum * b.n <= b.sum * a.n
GreaterEq(a, b) == ~a.nan /\ ~b.nan /\ a.sum * b.n >= b.sum * a.n
Less(a, b) == ~a.nan /\ ~b.nan /\ a.sum * b.n < b.sum * a.n
GreaterNotStrict(a, b) == ~a.nan /\ ~b.nan /\ a.sum * b.n >= b.sum * a.n
Greater(a, b) == ~a.nan /\ ~b.nan /\ a.sum * b.n > b.sum * a.n

\* pd.isna
IsNa(a) == a.nan

\* A row of the frame after the two SMA columns are added.
Row(data, short, long, i) ==
    [short_sma |-> RollingMean(data, short, i), long_sma |-> RollingMean(data, long, i)]

\* First definition, lines 130 and 132.
BuyCross1(previous, latest) ==
    LessEq(previous.short_sma, previous.long_sma) /\ Greater(latest.short_sma, latest.long_sma)
SellCross1(previous, latest) ==
    GreaterEq(previous.short_sma, previous.long_sma) /\ Less(latest.short_sma, latest.long_sma)

BuyCross2Strict(previous, latest) ==
    Less(previous.short_sma, previous.long_sma) /\ Greater(latest.short_sma, latest.long_sma)

\* Second definition, lines 155 and 158.
BuyCross2(previous, latest) ==
    LessEq(previous.short_sma, previous.long_sma) /\ Greater(latest.short_sma, latest.long_sma)
SellCross2(previous, latest) ==
    GreaterEq(previous.short_sma, previous.long_sma) /\ Less(latest.short_sma, latest.long_sma)

\* The first definition of simple_moving_average_strategy (lines 99-134), which
\* the second one shadows.
Strategy1(resp, short, long) ==
    LET data == get_historical_data(resp)
        n == Len(data)
    IN  IF n = 0 THEN "hold"
        ELSE IF n < long THEN "hold"
        ELSE IF n < 2 THEN "hold"
        ELSE LET latest == Row(data, short, long, n)
                 previous == Row(data, short, long, n - 1)
             IN  IF IsNa(previous.short_sma) \/ IsNa(previous.long_sma) THEN "hold"
                 ELSE IF BuyCross1(previous, latest) THEN "buy"
                 ELSE IF SellCross1(previous, latest) THEN "sell"
                 ELSE "hold"

\* The second, effective definition (lines 136-161).  data.iloc[-2] raises
\* IndexError on a frame of one row.
Strategy2(resp, short, long) ==
    LET data == get_historical_data(resp)
        n == Len(data)
    IN  IF n = 0 \/ n < long THEN "hold"
        ELSE IF n < 2 THEN "IndexError"
        ELSE LET latest == Row(data, short, long, n)
                 previous == Row(data, short, long, n - 1)
             IN  IF BuyCross2(previous, latest) THEN "buy"
                 ELSE IF SellCross2(previous, latest) THEN "sell"
                 ELSE "hold"

CallStrategyFirst ==
    /\ signal1 = "none"
    /\ signal1' = Strategy1(bars, short_window, long_window)
    /\ UNCHANGED <<botVars, opsVars, bars, short_window, long_window, signal2>>

CallStrategy ==
    /\ signal2 = "none"
    /\ signal2' = Strategy2(bars, short_window, long_window)
    /\ UNCHANGED <<botVars, opsVars, bars, short_window, long_window, signal1>>

(***************************************************************************)
(* Initial states and specifications.                                      *)
(***************************************************************************)
BotAtMain ==
    /\ pc = "main"
    /\ ctorClock = "none"
    /\ ctorAccount = "none"
    /\ retry_count = 0
    /\ hist = <<>>
    /\ clockQueries = 0
    /\ tradeIters = 0
    /\ slept = 0
    /\ lastClock = "none"

\* A bot whose construction succeeded, run_bot not started.
BotConstructed ==
    /\ pc = "constructed"
    /\ ctorClock \in {"open", "closed"}
    /\ ctorAccount = "ok"
    /\ retry_count = 0
    /\ hist = <<>>
    /\ clockQueries = 0
    /\ tradeIters = 0
    /\ slept = 0
    /\ lastClock = "none"

NoCalls == call = NoCall /\ orders = <<>>

\* No strategy call: an empty answer and the default windows of line 136.
NoStrategyCall ==
    /\ bars = [ok |-> TRUE, closes |-> <<>>]
    /\ short_window = 20
    /\ long_window = 50
    /\ signal1 = "none"
    /\ signal2 = "none"

Init == BotAtMain /\ NoCalls /\ NoStrategyCall

Next ==
    \/ Construct
    \/ StartRunBot
    \/ MarketClosedIteration
    \/ SuccessfulIteration
    \/ FailedIteration
    \/ Shutdown

Spec == Init /\ [][Next]_vars

\* The process is sequential and nothing but the loop's own exit stops it: once
\* the exit test holds at the top of the loop, the break is taken.
FairSpec == Spec /\ WF_vars(Shutdown)

InitOps == BotConstructed /\ NoCalls /\ NoStrategyCall

NextOps ==
    \/ CallExecuteTrade
    \/ CallGetPosition
    \/ CallIsSymbolTradeable
    \/ CallCheckMarketHours
    \/ CallGetAccountInfo

SpecOps == InitOps /\ [][NextOps]_vars

InitSMA ==
    /\ BotConstructed
    /\ ctorClock = "open"
    /\ NoCalls
    /\ bars \in BarsOutcomes
    /\ short_window \in Windows
    /\ long_window \in Windows
    /\ signal1 = "none"
    /\ signal2 = "none"

NextSMA ==
    \/ CallStrategyFirst
    \/ CallStrategy

SpecSMA == InitSMA /\ [][NextSMA]_vars

(***************************************************************************)
(* Properties.                                                             *)
(***************************************************************************)

\* The failed iterations since the last successful one (market-closed
\* iterations are neither).
RECURSIVE ConsecFails(_)
ConsecFails(h) ==
    IF h = <<>> THEN 0
    ELSE LET last == h[Len(h)]
             rest == SubSeq(h, 1, Len(h) - 1)
         IN  IF last = "ok" THEN 0
             ELSE IF last = "fail" THEN 1 + ConsecFails(rest)
             ELSE ConsecFails(rest)

\* C1: run_bot exits exactly when 3 iterations have failed with no successful
\* iteration between them: the loop is exited only in such a state; once 3 such
\* failures have happened the only step left is the exit, with no further
\* market-hours query or trading iteration; and the exit is then taken.
C1_ShutdownExactlyAtMaxRetries ==
    /\ [](pc = "done" => ConsecFails(hist) = 3)
    /\ [][ConsecFails(hist) >= 3 =>
            /\ pc' = "done"
            /\ hist' = hist
            /\ clockQueries' = clockQueries
            /\ tradeIters' = tradeIters]_vars
    /\ ((pc = "loop" /\ ConsecFails(hist) >= 3) ~> (pc = "done"))

\* C1 witness: the loop has exited after three failures that a market-closed
\* iteration interrupts and an earlier success precedes.
C1_Witness ==
    /\ pc = "done"
    /\ hist = <<"fail", "ok", "fail", "closed", "fail", "fail">>

\* C2: an iteration that runs with the market open and does not fail leaves
\* retry_count at zero and the loop running, whatever retry_count was; so the
\* counter is always the number of failures since the last success.
C2_SuccessResetsRetryCount ==
    /\ [](pc \in {"loop", "done"} => retry_count = ConsecFails(hist))
    /\ [][(Len(hist') = Len(hist) + 1 /\ hist'[Len(hist')] = "ok") =>
            /\ lastClock' = "open"
            /\ retry_count' = 0
            /\ pc' = "loop"
            /\ slept' = 60]_vars

\* C2 witness: four failures in all, two before and two after a success, and the
\* loop still runs with a count of two.
C2_Witness ==
    /\ pc = "loop"
    /\ hist = <<"fail", "fail", "ok", "fail", "fail">>
    /\ retry_count = 2

\* C3: an iteration whose market-hours query answers closed, or fails, sleeps 300
\* seconds and returns to the top of the loop with retry_count unchanged, no
\* trading iteration and no order submitted.
C3_MarketClosedLeavesRetryCount ==
    [][(clockQueries' = clockQueries + 1 /\ lastClock' \in {"closed", "error"}) =>
          /\ hist' = Append(hist, "closed")
          /\ retry_count' = retry_count
          /\ slept' = 300
          /\ pc' = "loop"
          /\ tradeIters' = tradeIters
          /\ orders' = orders]_vars

\* C3 witness: the clock query failed in an iteration entered with two failures
\* counted; the count is still two and the loop runs.
C3_Witness ==
    /\ pc = "loop"
    /\ lastClock = "error"
    /\ hist = <<"fail", "fail", "closed">>
    /\ retry_count = 2
    /\ slept = 300

\* The upper-case form of the letters of buy and sell.
UpperOf(c) ==
    CASE c = "b" -> "B" [] c = "u" -> "U" [] c = "y" -> "Y"
      [] c = "s" -> "S" [] c = "e" -> "E" [] c = "l" -> "L"
      [] OTHER -> c

\* str is word up to the case of its letters.
CaseVariant(str, word) ==
    /\ Len(str) = Len(word)
    /\ \A i \in 1..Len(word) : str[i] \in {word[i], UpperOf(word[i])}

IsBuyOrSell(side) ==
    CaseVariant(side, <<"b","u","y">>) \/ CaseVariant(side, <<"s","e","l","l">>)

\* C4: execute_trade invokes submit_order exactly once when side is buy or sell
\* in any case, and never otherwise, where it returns no order without raising.
C4_SubmitIffValidSide ==
    call.op = "execute_trade" =>
        IF IsBuyOrSell(call.side)
        THEN call.submits = 1
        ELSE call.submits = 0 /\ call.ret = None /\ ~call.raised

\* C4 witness: a mixed-case buy reached submit_order, which rejected it.
C4_Witness ==
    /\ call.op = "execute_trade"
    /\ call.side = <<"B","u","y">>
    /\ call.client = "rejected"
    /\ call.submits = 1
    /\ Len(orders) = 1

\* The mean of the n closes that end at row i, compared exactly.
RECURSIVE SeqSum(_)
SeqSum(q) == IF q = <<>> THEN 0 ELSE Head(q) + SeqSum(Tail(q))
WindowSum(closes, i, n) == SeqSum(SubSeq(closes, i - n + 1, i))
\* short mean - long mean at row i, scaled by short * long (> 0).
SmaDiff(closes, i, short, long) ==
    WindowSum(closes, i, short) * long - WindowSum(closes, i, long) * short

UpCross(closes, short, long) ==
    /\ SmaDiff(closes, Len(closes) - 1, short, long) <= 0
    /\ SmaDiff(closes, Len(closes), short, long) > 0

DownCross(closes, short, long) ==
    /\ SmaDiff(closes, Len(closes) - 1, short, long) >= 0
    /\ SmaDiff(closes, Len(closes), short, long) < 0

\* C5: on a series of more than long_window closes, with 0 < short_window <
\* long_window, the strategy answers buy exactly on an upward cross between the
\* last two rows, sell exactly on a downward cross, hold otherwise; the two never
\* hold together; constant closes give hold; 10, ..., 10, 11 with windows 2 and 5
\* gives buy.
C5_SignalIsCrossover ==
    (/\ signal2 # "none"
     /\ bars.ok
     /\ 0 < short_window
     /\ short_window < long_window
     /\ Len(bars.closes) > long_window) =>
        LET c == bars.closes
            n == Len(c)
            up == UpCross(c, short_window, long_window)
            down == DownCross(c, short_window, long_window)
        IN  /\ (signal2 = "buy") <=> up
            /\ (signal2 = "sell") <=> down
            /\ (signal2 = "hold") <=> (~up /\ ~down)
            /\ ~(up /\ down)
            /\ (\A i \in 1..n : c[i] = c[1]) => signal2 = "hold"
            /\ (/\ short_window = 2
                /\ long_window = 5
                /\ \A i \in 1..(n - 1) : c[i] = 10
                /\ c[n] = 11) => signal2 = "buy"

\* C5 witness: the series 10, 10, 10, 10, 10, 11 with windows 2 and 5 gave buy.
C5_Witness ==
    /\ bars = [ok |-> TRUE, closes |-> <<10, 10, 10, 10, 10, 11>>]
    /\ short_window = 2
    /\ long_window = 5
    /\ signal2 = "buy"

\* C6: with 0 < short_window < long_window, a failed fetch, an empty series and a
\* series of at most long_window closes all give hold, and nothing is raised.
C6_HoldWhenNotComputable ==
    (/\ signal2 # "none"
     /\ 0 < short_window
     /\ short_window < long_window
     /\ Len(bars.closes) <= long_window) => signal2 = "hold"

\* C6 witness: exactly long_window closes that rise at the last row gave hold.
C6_Witness ==
    /\ bars = [ok |-> TRUE, closes |-> <<10, 11>>]
    /\ short_window = 1
    /\ long_window = 2
    /\ signal2 = "hold"

\* C7: get_account_info returns a failure value when get_account fails; it does
\* not raise.
C7_AccountInfoContainsFailure ==
    (call.op = "get_account_info" /\ call.client = "error") => ~call.raised

\* C8: the loop is entered only by a bot whose constructor saw get_clock and
\* get_account succeed; a failure of either ends the process before run_bot.
C8_LoopOnlyAfterProbe ==
    /\ pc \in {"constructed", "loop", "done"} =>
          (ctorClock \in {"open", "closed"} /\ ctorAccount = "ok")
    /\ (ctorClock \in {"none", "error"} \/ ctorAccount \in {"none", "error"}) =>
          (pc \in {"main", "crashed"} /\ hist = <<>> /\ clockQueries = 0)

\* C8 witness: the probe failed, the account was not fetched, the process ended.
C8_Witness ==
    /\ pc = "crashed"
    /\ ctorClock = "error"
    /\ ctorAccount = "none"

\* C9: on a failure of the client call get_position returns None,
\* is_symbol_tradeable False, check_market_hours False and execute_trade (valid
\* side) None; none of the four raises; an accepted order is returned as is.
C9_FailuresContained ==
    /\ call.op \in {"get_position", "is_symbol_tradeable", "check_market_hours",
                    "execute_trade"} => ~call.raised
    /\ (call.op = "get_position" /\ call.client # "found") => call.ret = None
    /\ (call.op = "is_symbol_tradeable" /\ call.client = "error") => call.ret = Bool(FALSE)
    /\ (call.op = "check_market_hours" /\ call.client = "error") => call.ret = Bool(FALSE)
    /\ (call.op = "execute_trade" /\ IsBuyOrSell(call.side)) =>
          IF call.client = "accepted"
          THEN call.ret = Order(OrderRequest(call.symbol, call.qty, call.side))
          ELSE call.ret = None

\* C9 witness: get_position met a failing client and returned None.
C9_Witness ==
    /\ call.op = "get_position"
    /\ call.client = "error"
    /\ call.ret = None
    /\ ~call.raised

====
